---- MODULE Spec2Model ----
(***************************************************************************)
(* QuickCourt: the court availability and conflict-resolution engine.      *)
(*                                                                         *)
(* The state is the part of the database the booking handlers read and     *)
(* write (bookings, venue working hours, the court's operating-hours blob, *)
(* the legacy time-slot table, the court time slots and their links to     *)
(* bookings), the server's clock and time zone, the slot-generation loop   *)
(* that is running, and the HTTP response of the last handler that ran.    *)
(*                                                                         *)
(* Dates are day numbers since 1970-01-01, instants are minutes since the  *)
(* epoch, times of day are <<hour, minute>> pairs as the "HH:MM" strings   *)
(* of the requests carry them.                                             *)
(***************************************************************************)
EXTENDS Integers, Sequences, FiniteSets, TLC

VARIABLES
  bookings,           \* the Booking table, in insertion order; id = index
  venueWorkingHours,  \* the VenueWorkingHours rows of the venue, in insertion order
  operatingHours,     \* court.operatingHours: a JSON blob, or NoHours
  timeSlots,          \* the legacy TimeSlot rows of the court
  courtTimeSlots,     \* the CourtTimeSlot rows of the court; id = index
  bookingTimeSlots,   \* the BookingTimeSlot link rows
  slotLoop,           \* the slot-generation loop that is running, or NoLoop
  billing,            \* the amount computed for the last create, or NoBilling
  tz,                 \* the server's offset from UTC, in minutes
  now,                \* the server's local civil clock: [date, minutes]
  response,           \* the response of the last handler
  reqs                \* in-flight requests (the concurrent specifications)

vars == <<bookings, venueWorkingHours, operatingHours, timeSlots, courtTimeSlots,
          bookingTimeSlots, slotLoop, billing, tz, now, response, reqs>>

----------------------------------------------------------------------------
(* Bounds and input sets *)

MaxBookings == 2

Users == {1}
Courts == {1}

\* dates: 3 is 1970-01-04 (Sunday), 4 is 1970-01-05 (Monday, the server's
\* today), 5 is 1970-01-06 (Tuesday)

TzOffsets == {0 - 300, 0, 330}

\* null
NoHours == [none |-> TRUE]
NoTime == <<>>
NoDate == 0 - 1
\* a cancelledAt that was never set, a cancellationReason that was never set
\* or not sent
NoStamp == <<>>
NoReason == "null"
\* no slot generation is running; no amount was computed yet
NoLoop == [pc |-> "idle"]
NoBilling == [handler |-> "none"]

----------------------------------------------------------------------------
(* Time model *)

MinutesPerDay == 24 * 60

\* startHour * 60 + startMinute
ToMinutes(t) == t[1] * 60 + t[2]

\* new Date("YYYY-MM-DD"): UTC midnight of the date, as an instant
ParseDate(d) == d * MinutesPerDay

\* new Date(now.getFullYear(), now.getMonth(), now.getDate()): local midnight
TodayInstant == now.date * MinutesPerDay - tz

\* now.getHours() * 60 + now.getMinutes()
CurrentTime == now.minutes

\* bookingDateObj.getDay(): the weekday of the instant in local time
\* (1970-01-01 is a Thursday)
GetDay(d) == (((ParseDate(d) + tz) \div MinutesPerDay) + 4) % 7

----------------------------------------------------------------------------
(* Responses *)

\* status: the HTTP status; kind: which return statement answered; named: the
\* times of day the message names; conflicts: the conflicts payload
Resp(status, kind, named, conflicts) ==
  [status |-> status, kind |-> kind, named |-> named, conflicts |-> conflicts]

NoResponse == Resp(0, "none", {}, {})

----------------------------------------------------------------------------
(* The Booking table *)

Booking(u, c, d, s, e, st) ==
  [userId |-> u, courtId |-> c, bookingDate |-> d, startTime |-> s, endTime |-> e,
   status |-> st, cancelledAt |-> NoStamp, cancellationReason |-> NoReason]

\* new Date(): the instant of the server's clock
NewDate == <<now.date, now.minutes>>

Ids == 1..Len(bookings)

\* prisma.booking.create: the row is appended and gets the next id
Insert(b) == Append(bookings, b)

----------------------------------------------------------------------------
(* POST /flexible-booking *)

\* the past checks shared by the handlers: the date-only string is parsed as
\* UTC midnight and compared with the server's local midnight
PastDate(d) == ParseDate(d) < TodayInstant
PastTime(d, startMinutes) == ParseDate(d) = TodayInstant /\ startMinutes <= CurrentTime

\* prisma.venueWorkingHours.findFirst({dayOfWeek, isActive: true}): the first
\* matching row, or none
MatchingHours(dayOfWeek) ==
  {i \in 1..Len(venueWorkingHours) :
     /\ venueWorkingHours[i].dayOfWeek = dayOfWeek
     /\ venueWorkingHours[i].isActive}

FindWorkingHours(dayOfWeek) ==
  LET m == MatchingHours(dayOfWeek)
  IN venueWorkingHours[CHOOSE i \in m : \A j \in m : i <= j]

\* startMinutes < venueStartMinutes, endMinutes > venueEndMinutes
BeforeOpening(startMinutes, wh) == startMinutes < ToMinutes(wh.startTime)
\* the closing comparison taken as not strict
AfterClosingInclusive(endMinutes, wh) == endMinutes >= ToMinutes(wh.endTime)
AfterClosing(endMinutes, wh) == endMinutes > ToMinutes(wh.endTime)

\* the OR with its first clause closed at the end of the stored row
FlexOverlapClauseClosed(b, s, e) ==
  \/ (b.startTime <= s /\ b.endTime >= s)
  \/ (b.startTime < e /\ b.endTime >= e)
  \/ (b.startTime >= s /\ b.endTime <= e)
  \/ (b.startTime <= s /\ b.endTime >= e)

\* the OR of the conflictingBookings query, on one stored row
FlexOverlapClause(b, s, e) ==
  \/ (b.startTime <= s /\ b.endTime > s)
  \/ (b.startTime < e /\ b.endTime >= e)
  \/ (b.startTime >= s /\ b.endTime <= e)
  \/ (b.startTime <= s /\ b.endTime >= e)

\* conflictingBookings: same court, bookingDate in [targetDate, nextDay),
\* status confirmed or pending, and the OR
FlexConflicts(c, d, s, e) ==
  {i \in Ids :
     /\ bookings[i].courtId = c
     /\ ParseDate(bookings[i].bookingDate) >= ParseDate(d)
     /\ ParseDate(bookings[i].bookingDate) < ParseDate(d) + MinutesPerDay
     /\ bookings[i].status \in {"confirmed", "pending"}
     /\ FlexOverlapClause(bookings[i], s, e)}

\* conflicts: the start and end of every row the query returned
ConflictPayload(ids) ==
  {<<bookings[i].startTime, bookings[i].endTime>> : i \in ids}

\* the handler's validation sequence up to the conflict query; "ok" when every
\* check passed
FlexValidate(c, d, s, e) ==
  LET startMinutes == ToMinutes(s)
      endMinutes == ToMinutes(e)
      dayOfWeek == GetDay(d)
  IN IF startMinutes >= endMinutes THEN Resp(400, "invalid_range", {}, {})
     ELSE IF PastDate(d) THEN Resp(400, "past_date", {}, {})
     ELSE IF PastTime(d, startMinutes) THEN Resp(400, "past_time", {}, {})
     ELSE IF MatchingHours(dayOfWeek) = {} THEN Resp(400, "closed", {}, {})
     ELSE LET wh == FindWorkingHours(dayOfWeek)
          IN IF BeforeOpening(startMinutes, wh)
               THEN Resp(400, "opens_at", {ToMinutes(wh.startTime)}, {})
             ELSE IF AfterClosing(endMinutes, wh)
               THEN Resp(400, "closes_at", {ToMinutes(wh.endTime)}, {})
             ELSE Resp(200, "ok", {}, {})

\* the response of the whole handler in the current state
FlexResponse(c, d, s, e) ==
  LET v == FlexValidate(c, d, s, e)
      conflictingBookings == FlexConflicts(c, d, ToMinutes(s), ToMinutes(e))
  IN IF v.kind # "ok" THEN v
     ELSE IF conflictingBookings # {}
       THEN Resp(409, "conflict", {}, ConflictPayload(conflictingBookings))
     ELSE Resp(201, "created", {}, {})

FlexibleBooking(u, c, d, s, e) ==
  LET r == FlexResponse(c, d, s, e)
  IN /\ Len(bookings) < MaxBookings
     /\ response' = r
     /\ bookings' = IF r.kind = "created"
                      THEN Insert(Booking(u, c, d, ToMinutes(s), ToMinutes(e), "confirmed"))
                      ELSE bookings
     /\ UNCHANGED <<venueWorkingHours, operatingHours, timeSlots, courtTimeSlots, bookingTimeSlots,
                 slotLoop, billing, tz, now, reqs>>

----------------------------------------------------------------------------
(* POST /check-availability *)

\* existingBookings: the confirmed and pending rows of the court with
\* bookingDate in [targetDate, nextDay)
ExistingBookings(c, d) ==
  {i \in Ids :
     /\ bookings[i].courtId = c
     /\ ParseDate(bookings[i].bookingDate) >= ParseDate(d)
     /\ ParseDate(bookings[i].bookingDate) < ParseDate(d) + MinutesPerDay
     /\ bookings[i].status \in {"confirmed", "pending"}}

\* startTimeDate < booking.endTime && endTimeDate > booking.startTime
HasConflict(b, s, e) == s < b.endTime /\ e > b.startTime

\* the handler has no check of the time range; its 200 answer carries
\* isAvailable and every existing booking of the court and date
CheckAvailabilityResponse(c, d, s, e) ==
  LET startMinutes == ToMinutes(s)
      endMinutes == ToMinutes(e)
      dayOfWeek == GetDay(d)
      existingBookings == ExistingBookings(c, d)
      hasConflict == \E i \in existingBookings :
                       HasConflict(bookings[i], startMinutes, endMinutes)
  IN IF PastDate(d) THEN Resp(400, "past_date", {}, {})
     ELSE IF PastTime(d, startMinutes) THEN Resp(400, "past_time", {}, {})
     ELSE IF MatchingHours(dayOfWeek) = {} THEN Resp(400, "closed", {}, {})
     ELSE LET wh == FindWorkingHours(dayOfWeek)
          IN IF BeforeOpening(startMinutes, wh)
               THEN Resp(400, "opens_at", {ToMinutes(wh.startTime)}, {})
             ELSE IF AfterClosing(endMinutes, wh)
               THEN Resp(400, "closes_at", {ToMinutes(wh.endTime)}, {})
             ELSE Resp(200, IF hasConflict THEN "unavailable" ELSE "available", {},
                       ConflictPayload(existingBookings))

CheckAvailability(c, d, s, e) ==
  /\ response' = CheckAvailabilityResponse(c, d, s, e)
  /\ UNCHANGED <<bookings, venueWorkingHours, operatingHours, timeSlots, courtTimeSlots, bookingTimeSlots,
                 slotLoop, billing, tz, now, reqs>>

----------------------------------------------------------------------------
(* createBooking *)

OperatingHoursBlob(days, startDate, endDate, s, e) ==
  [none |-> FALSE, daysOfWeek |-> days, startDate |-> startDate, endDate |-> endDate,
   startTime |-> s, endTime |-> e]

\* opStartMinutes / opEndMinutes: a missing bound defaults to 0 / 1440
OpStartMinutes == IF operatingHours.startTime = NoTime THEN 0
                  ELSE ToMinutes(operatingHours.startTime)
OpEndMinutes == IF operatingHours.endTime = NoTime THEN MinutesPerDay
                ELSE ToMinutes(operatingHours.endTime)

\* the times the "only allowed between" message names: startTime || '00:00',
\* endTime || '23:59'
OpNamedTimes ==
  { IF operatingHours.startTime = NoTime THEN 0 ELSE ToMinutes(operatingHours.startTime),
    IF operatingHours.endTime = NoTime THEN MinutesPerDay - 1
    ELSE ToMinutes(operatingHours.endTime) }

\* startMinutes < opStartMinutes || endMinutes > opEndMinutes
OutsideDailyHours(startMinutes, endMinutes) ==
  startMinutes < OpStartMinutes \/ endMinutes > OpEndMinutes

\* if (court.operatingHours) { ... }: "ok" when no check rejects, and when the
\* court has no operating hours at all
CreateHoursCheck(d, startMinutes, endMinutes) ==
  LET bookingDayOfWeek == GetDay(d)
  IN IF operatingHours = NoHours THEN Resp(200, "ok", {}, {})
     ELSE IF bookingDayOfWeek \notin operatingHours.daysOfWeek
       THEN Resp(400, "closed", {}, {})
     ELSE IF operatingHours.startDate # NoDate /\ d < operatingHours.startDate
       THEN Resp(400, "not_until", {}, {})
     ELSE IF operatingHours.endDate # NoDate /\ d > operatingHours.endDate
       THEN Resp(400, "not_after", {}, {})
     ELSE IF OutsideDailyHours(startMinutes, endMinutes)
       THEN Resp(400, "only_between", OpNamedTimes, {})
     ELSE Resp(200, "ok", {}, {})

TimeSlot(dayOfWeek, s, e, isAvailable) ==
  [dayOfWeek |-> dayOfWeek, startTime |-> s, endTime |-> e, isAvailable |-> isAvailable]

\* prisma.timeSlot.findFirst: a row of the weekday starting and ending within
\* the minute of the request, and available
FindTimeSlot(d, startMinutes, endMinutes) ==
  {ts \in timeSlots :
     /\ ts.dayOfWeek = GetDay(d)
     /\ ts.startTime >= startMinutes /\ ts.startTime < startMinutes + 1
     /\ ts.endTime >= endMinutes /\ ts.endTime < endMinutes + 1
     /\ ts.isAvailable}

\* the OR of createBooking's and rescheduleBooking's conflictingBooking query
CreateOverlapClause(b, s, e) ==
  \/ (b.startTime <= s /\ b.endTime > s)
  \/ (b.startTime < e /\ b.endTime >= e)

\* the query without its status filter
CreateConflictsAnyStatus(c, d, s, e) ==
  {i \in Ids :
     /\ bookings[i].courtId = c
     /\ ParseDate(bookings[i].bookingDate) = ParseDate(d)
     /\ CreateOverlapClause(bookings[i], s, e)}

\* conflictingBooking: same court, bookingDate equal, status not cancelled
CreateConflicts(c, d, s, e) ==
  {i \in Ids :
     /\ bookings[i].courtId = c
     /\ ParseDate(bookings[i].bookingDate) = ParseDate(d)
     /\ bookings[i].status # "cancelled"
     /\ CreateOverlapClause(bookings[i], s, e)}

CreateValidate(c, d, s, e) ==
  LET startMinutes == ToMinutes(s)
      endMinutes == ToMinutes(e)
      hours == CreateHoursCheck(d, startMinutes, endMinutes)
  IN IF endMinutes <= startMinutes THEN Resp(400, "invalid_range", {}, {})
     ELSE IF PastDate(d) THEN Resp(400, "past_date", {}, {})
     ELSE IF PastTime(d, startMinutes) THEN Resp(400, "past_time", {}, {})
     ELSE IF hours.kind # "ok" THEN hours
     ELSE IF FindTimeSlot(d, startMinutes, endMinutes) = {}
       THEN Resp(400, "slot_unavailable", {}, {})
     ELSE Resp(200, "ok", {}, {})

CreateResponse(c, d, s, e) ==
  LET v == CreateValidate(c, d, s, e)
  IN IF v.kind # "ok" THEN v
     ELSE IF CreateConflicts(c, d, ToMinutes(s), ToMinutes(e)) # {}
       THEN Resp(409, "conflict", {}, {})
     ELSE Resp(201, "created", {}, {})

CreateBooking(u, c, d, s, e) ==
  LET r == CreateResponse(c, d, s, e)
  IN /\ Len(bookings) < MaxBookings
     /\ response' = r
     /\ bookings' = IF r.kind = "created"
                      THEN Insert(Booking(u, c, d, ToMinutes(s), ToMinutes(e), "confirmed"))
                      ELSE bookings
     /\ UNCHANGED <<venueWorkingHours, operatingHours, timeSlots, courtTimeSlots, bookingTimeSlots,
                 slotLoop, billing, tz, now, reqs>>

----------------------------------------------------------------------------
(* cancelBooking, rescheduleBooking *)

\* the row's owner is the caller: userId: userId in the findFirst
OwnedByAnyone(b, userId) == TRUE
OwnedBy(b, userId) == b.userId = userId

\* findFirst({id, userId, status: {not: 'cancelled'}}), then the update
CancelBooking(id, u, reason) ==
  LET found == id \in Ids /\ OwnedBy(bookings[id], u) /\ bookings[id].status # "cancelled"
  IN /\ response' = IF found THEN Resp(200, "cancelled", {}, {})
                    ELSE Resp(404, "not_found", {}, {})
     /\ bookings' =
          IF found
            THEN [bookings EXCEPT
                    ![id].status = "cancelled",
                    ![id].cancelledAt = NewDate,
                    ![id].cancellationReason =
                      IF reason = NoReason THEN "Cancelled by customer" ELSE reason]
            ELSE bookings
     /\ UNCHANGED <<venueWorkingHours, operatingHours, timeSlots, courtTimeSlots, bookingTimeSlots,
                 slotLoop, billing, tz, now, reqs>>

\* req.user?.id of a request without a user
NoUser == 0 - 1

\* transporter.sendMail resolves or rejects; the email methods rethrow
MailOutcomes == {"sent", "failed"}

\* the stripe controller's cancelBooking: findFirst({id, ...(userId &&
\* {userId})}), 400 when the row is cancelled already, then the update. The
\* route runs authMiddleware first, so the requests carry the caller's id.
\* mail: whether transporter.sendMail of the cancellation email resolves or
\* rejects.  The email is awaited after the update and outside any inner
\* try/catch, so a rejection reaches the handler's catch block.
StripeCancelBookingMail(id, userId, reason, mail) ==
  LET found == id \in Ids /\ (userId = NoUser \/ OwnedBy(bookings[id], userId))
      cancelled == found /\ bookings[id].status = "cancelled"
  IN /\ response' = IF ~found THEN Resp(404, "not_found", {}, {})
                    ELSE IF cancelled THEN Resp(400, "already_cancelled", {}, {})
                    ELSE IF mail = "failed" THEN Resp(500, "error", {}, {})
                    ELSE Resp(200, "cancelled", {}, {})
     /\ bookings' =
          IF found /\ ~cancelled
            THEN [bookings EXCEPT
                    ![id].status = "cancelled",
                    ![id].cancellationReason =
                      IF reason = NoReason THEN "User cancellation" ELSE reason,
                    ![id].cancelledAt = NewDate]
            ELSE bookings
     /\ UNCHANGED <<venueWorkingHours, operatingHours, timeSlots, courtTimeSlots, bookingTimeSlots,
                 slotLoop, billing, tz, now, reqs>>

\* the handler when the email is delivered
StripeCancelBooking(id, userId, reason) == StripeCancelBookingMail(id, userId, reason, "sent")

\* the court time slots linked to a booking
LinkedSlots(bookingId) ==
  {l.courtTimeSlotId : l \in {x \in bookingTimeSlots : x.bookingId = bookingId}}

\* TimeSlotService.cancelBookingTimeSlots: deleteMany of the booking's links,
\* then updateMany({id in timeSlotIds}, {isAvailable: true})
LinksAfterCancel(bookingId) == {l \in bookingTimeSlots : l.bookingId # bookingId}

SlotsAfterCancel(bookingId) ==
  [k \in DOMAIN courtTimeSlots |->
     IF k \in LinkedSlots(bookingId)
       THEN [courtTimeSlots[k] EXCEPT !.isAvailable = TRUE]
       ELSE courtTimeSlots[k]]

\* cancelBookingWithTimeSlots: findFirst({id, userId}), 400 when the row is
\* cancelled already, the release of the row's court time slots, then the
\* update
CancelBookingWithTimeSlots(id, userId, cancellationReason) ==
  LET found == id \in Ids /\ OwnedBy(bookings[id], userId)
      cancelled == found /\ bookings[id].status = "cancelled"
  IN /\ response' = IF ~found THEN Resp(404, "not_found", {}, {})
                    ELSE IF cancelled THEN Resp(400, "already_cancelled", {}, {})
                    ELSE Resp(200, "cancelled", {}, {})
     /\ bookingTimeSlots' =
          IF found /\ ~cancelled THEN LinksAfterCancel(id) ELSE bookingTimeSlots
     /\ courtTimeSlots' =
          IF found /\ ~cancelled THEN SlotsAfterCancel(id) ELSE courtTimeSlots
     /\ bookings' =
          IF found /\ ~cancelled
            THEN [bookings EXCEPT
                    ![id].status = "cancelled",
                    ![id].cancellationReason =
                      IF cancellationReason = NoReason THEN "Cancelled by user"
                      ELSE cancellationReason,
                    ![id].cancelledAt = NewDate]
            ELSE bookings
     /\ UNCHANGED <<venueWorkingHours, operatingHours, timeSlots,
                    slotLoop, billing, tz, now, reqs>>

\* the conflict query of rescheduleBooking: the other rows of the court on
\* the new date that are not cancelled
RescheduleConflicts(id, d, s, e) ==
  {i \in Ids :
     /\ bookings[i].courtId = bookings[id].courtId
     /\ ParseDate(bookings[i].bookingDate) = ParseDate(d)
     /\ bookings[i].status # "cancelled"
     /\ i # id
     /\ CreateOverlapClause(bookings[i], s, e)}

\* findFirst({id, userId, status in pending/confirmed}), the conflict query,
\* then the update of the row's date and times in place; newStartTime and
\* newEndTime go to the query and to the update as they arrive
RescheduleBooking(id, u, d, s, e) ==
  LET found == /\ id \in Ids
               /\ bookings[id].userId = u
               /\ bookings[id].status \in {"pending", "confirmed"}
      conflict == found /\ RescheduleConflicts(id, d, ToMinutes(s), ToMinutes(e)) # {}
  IN /\ response' = IF ~found THEN Resp(404, "not_found", {}, {})
                    ELSE IF conflict THEN Resp(409, "conflict", {}, {})
                    ELSE Resp(200, "rescheduled", {}, {})
     /\ bookings' = IF found /\ ~conflict
                      THEN [bookings EXCEPT ![id].bookingDate = d,
                                            ![id].startTime = ToMinutes(s),
                                            ![id].endTime = ToMinutes(e)]
                      ELSE bookings
     /\ UNCHANGED <<venueWorkingHours, operatingHours, timeSlots, courtTimeSlots, bookingTimeSlots,
                 slotLoop, billing, tz, now, reqs>>

----------------------------------------------------------------------------
(* handleCheckoutSuccess, confirmPayment *)

\* a paid checkout session: the metadata createCheckoutSession stored
Session(u, c, d, s, e) == [userId |-> u, courtId |-> c, date |-> d, startTime |-> s, endTime |-> e]

\* session.payment_status === 'paid': the booking is created from the metadata
HandleCheckoutSuccess(session) ==
  /\ Len(bookings) < MaxBookings
  /\ bookings' = Insert(Booking(session.userId, session.courtId, session.date,
                                ToMinutes(session.startTime), ToMinutes(session.endTime),
                                "confirmed"))
  /\ response' = Resp(200, "created", {}, {})
  /\ UNCHANGED <<venueWorkingHours, operatingHours, timeSlots, courtTimeSlots, bookingTimeSlots,
                 slotLoop, billing, tz, now, reqs>>

\* paymentIntent.status === 'succeeded': the booking is created from bookingData
ConfirmPayment(u, bookingData) ==
  /\ Len(bookings) < MaxBookings
  /\ bookings' = Insert(Booking(u, bookingData.courtId, bookingData.date,
                                ToMinutes(bookingData.startTime),
                                ToMinutes(bookingData.endTime), "confirmed"))
  /\ response' = Resp(200, "created", {}, {})
  /\ UNCHANGED <<venueWorkingHours, operatingHours, timeSlots, courtTimeSlots, bookingTimeSlots,
                 slotLoop, billing, tz, now, reqs>>

----------------------------------------------------------------------------
(* confirmed -> completed: time-driven, once the booking's end has passed *)

CompleteBooking(id) ==
  /\ id \in Ids
  /\ bookings[id].status = "confirmed"
  /\ \/ bookings[id].bookingDate < now.date
     \/ bookings[id].bookingDate = now.date /\ bookings[id].endTime <= now.minutes
  /\ bookings' = [bookings EXCEPT ![id].status = "completed"]
  /\ UNCHANGED <<venueWorkingHours, operatingHours, timeSlots, courtTimeSlots, bookingTimeSlots,
                 slotLoop, billing, tz, now, response, reqs>>

----------------------------------------------------------------------------
(* TimeSlotService.setVenueWorkingHours *)

\* a VenueWorkingHours row. The table's schema is not among the sources: the
\* row carries its times as times of day, as the OperatingWindow of the
\* specification does, so that the findFirst of the booking route reads what
\* setVenueWorkingHours wrote.
WorkingHoursRow(dayOfWeek, s, e, isActive) ==
  [dayOfWeek |-> dayOfWeek, startTime |-> s, endTime |-> e, isActive |-> isActive]

\* isActive: wh.isActive || true
StoredIsActive(isActive) == isActive \/ TRUE

\* deleteMany of the venue's rows, then createMany of the mapped input
SetVenueWorkingHours(workingHours) ==
  /\ venueWorkingHours' =
       [i \in 1..Len(workingHours) |->
          WorkingHoursRow(workingHours[i].dayOfWeek, workingHours[i].startTime,
                          workingHours[i].endTime,
                          StoredIsActive(workingHours[i].isActive))]
  /\ response' = Resp(200, "hours_set", {}, {})
  /\ UNCHANGED <<bookings, operatingHours, timeSlots, courtTimeSlots, bookingTimeSlots,
                 slotLoop, billing, tz, now, reqs>>

\* the validators of POST /venues/:venueId/working-hours, which the
\* controller enforces with validationResult: dayOfWeek is an integer 0..6
\* (the time formats hold for every time of day)
ValidWorkingHours(workingHours) ==
  \A i \in 1..Len(workingHours) : workingHours[i].dayOfWeek \in 0..6

\* the controller setVenueWorkingHours: 400 on validation errors, else the
\* service call
PostWorkingHours(workingHours) ==
  IF ValidWorkingHours(workingHours)
    THEN SetVenueWorkingHours(workingHours)
    ELSE /\ response' = Resp(400, "validation", {}, {})
         /\ UNCHANGED <<bookings, venueWorkingHours, operatingHours, timeSlots, courtTimeSlots, bookingTimeSlots,
                 slotLoop, billing, tz, now, reqs>>

----------------------------------------------------------------------------
(* POST /venues/:venueId/operating-hours *)

\* an element of req.body.operatingHours
OperatingWindow(dayOfWeek, openTime, closeTime, isOpen) ==
  [dayOfWeek |-> dayOfWeek, openTime |-> openTime, closeTime |-> closeTime,
   isOpen |-> isOpen]

\* createData: the handler writes the columns openTime, closeTime and isOpen;
\* they are taken as the row's opening time, closing time and open flag
CreateData(hours) ==
  [i \in 1..Len(hours) |->
     WorkingHoursRow(hours[i].dayOfWeek, hours[i].openTime, hours[i].closeTime,
                     hours[i].isOpen)]

\* the handler never reads the result of its validators: deleteMany, then
\* createMany of the body as it arrived
PostOperatingHours(hours) ==
  /\ venueWorkingHours' = CreateData(hours)
  /\ response' = Resp(200, "hours_set", {}, {})
  /\ UNCHANGED <<bookings, operatingHours, timeSlots, courtTimeSlots, bookingTimeSlots,
                 slotLoop, billing, tz, now, reqs>>

\* the working-hours bodies an owner posts: none, Tuesday 09:00-12:00 open
\* and not open, Tuesday 10:00-10:30
WorkingHoursInputs ==
  { <<>>,
    <<WorkingHoursRow(2, <<9, 0>>, <<12, 0>>, TRUE)>>,
    <<WorkingHoursRow(2, <<9, 0>>, <<12, 0>>, FALSE)>>,
    <<WorkingHoursRow(2, <<10, 0>>, <<10, 30>>, TRUE)>> }

----------------------------------------------------------------------------
(* Inputs of the specifications *)

\* the blobs a court carries: none, or Monday and Tuesday 10:00-12:00 from
\* 1970-01-06 on
OperatingHoursInputs ==
  {NoHours, OperatingHoursBlob({1, 2}, 5, NoDate, <<10, 0>>, <<12, 0>>)}

\* the intervals requests carry: back-to-back, overlapping and nested ones,
\* and two with start >= end
A == <<<<9, 0>>, <<10, 0>>>>
B == <<<<10, 0>>, <<12, 0>>>>
C == <<<<10, 30>>, <<12, 0>>>>
D == <<<<9, 0>>, <<12, 0>>>>
E == <<<<10, 0>>, <<10, 30>>>>
Backwards == <<<<12, 0>>, <<10, 30>>>>
Empty == <<<<10, 0>>, <<10, 0>>>>
ValidIntervals == {A, B, C, D, E}
IntervalInputs == ValidIntervals \cup {Backwards, Empty}

\* the legacy time slots of the court: one per valid interval, on Sunday,
\* Monday and Tuesday
TimeSlotRows ==
  {TimeSlot(dow, ToMinutes(iv[1]), ToMinutes(iv[2]), TRUE) :
     dow \in 0..2, iv \in ValidIntervals}

Request(d, iv) == [date |-> d, startTime |-> iv[1], endTime |-> iv[2]]

\* create requests: one for yesterday; for today one that starts before now,
\* one that starts now and one that starts later; every interval tomorrow
CreateRequests ==
  {Request(3, A), Request(3, Backwards)} \cup {Request(4, iv) : iv \in {A, E, C}}
    \cup {Request(5, iv) : iv \in IntervalInputs}

RescheduleRequests == {Request(4, A), Request(5, D), Request(5, Backwards)}

\* the paid checkout sessions and payment intents: the dates and times are
\* whatever the client put in the metadata
PaidRequests == {Request(4, A), Request(5, Backwards)}
PaidSessions ==
  {Session(u, c, r.date, r.startTime, r.endTime) :
     u \in Users, c \in Courts, r \in PaidRequests}

----------------------------------------------------------------------------
(* Specification: the handlers one at a time *)

Init ==
  /\ bookings = <<>>
  /\ venueWorkingHours = <<>>
  /\ operatingHours \in OperatingHoursInputs
  /\ timeSlots = TimeSlotRows
  /\ courtTimeSlots = <<>>
  /\ bookingTimeSlots = {}
  /\ slotLoop = NoLoop
  /\ billing = NoBilling
  /\ tz \in TzOffsets
  /\ now = [date |-> 4, minutes |-> 600]
  /\ response = NoResponse
  /\ reqs = <<>>

Next ==
  \/ \E u \in Users, c \in Courts, r \in CreateRequests :
       FlexibleBooking(u, c, r.date, r.startTime, r.endTime)
  \/ \E u \in Users, c \in Courts, r \in CreateRequests :
       CreateBooking(u, c, r.date, r.startTime, r.endTime)
  \/ \E id \in 1..MaxBookings, u \in Users : CancelBooking(id, u, NoReason)
  \/ \E id \in 1..MaxBookings, u \in Users, r \in RescheduleRequests :
       RescheduleBooking(id, u, r.date, r.startTime, r.endTime)
  \/ \E session \in PaidSessions : HandleCheckoutSuccess(session)
  \/ \E session \in PaidSessions : ConfirmPayment(session.userId, session)
  \/ \E id \in 1..MaxBookings : CompleteBooking(id)
  \/ \E wh \in WorkingHoursInputs : SetVenueWorkingHours(wh)

Spec == Init /\ [][Next]_vars

----------------------------------------------------------------------------
(* Specification: create requests in flight together.                      *)
(*                                                                         *)
(* Each handler awaits its conflict query and then awaits its insert; the  *)
(* two are separate statements on the database and other requests run      *)
(* between them. createBooking wraps only the insert in prisma.$transaction. *)

NumRequests == 3

\* the intervals of the requests, all for the same court on 1970-01-06: they
\* overlap one another and no two start at the same time
RaceIntervals == <<B, C, D>>
RaceInterval(i) == RaceIntervals[((i - 1) % Len(RaceIntervals)) + 1]
RaceTarget == [userId |-> 1, courtId |-> 1, date |-> 5]

NewRequest == [handler |-> "none", pc |-> "new", result |-> "none"]

\* POST /flexible-booking up to and including the conflictingBookings query
FlexFindConflicts(i) ==
  LET iv == RaceInterval(i)
      r == FlexResponse(RaceTarget.courtId, RaceTarget.date, iv[1], iv[2])
  IN /\ reqs[i].pc = "new"
     /\ reqs' = [reqs EXCEPT ![i] =
                   [handler |-> "flex",
                    pc |-> IF r.kind = "created" THEN "create" ELSE "done",
                    result |-> IF r.kind = "created" THEN "none" ELSE r.kind]]
     /\ response' = IF r.kind = "created" THEN response ELSE r
     /\ UNCHANGED <<bookings, venueWorkingHours, operatingHours, timeSlots, courtTimeSlots, bookingTimeSlots,
                 slotLoop, billing, tz, now>>

\* POST /flexible-booking from prisma.booking.create on
FlexCreate(i) ==
  LET iv == RaceInterval(i)
  IN /\ reqs[i].pc = "create"
     /\ reqs[i].handler = "flex"
     /\ bookings' = Insert(Booking(RaceTarget.userId, RaceTarget.courtId, RaceTarget.date,
                                   ToMinutes(iv[1]), ToMinutes(iv[2]), "confirmed"))
     /\ reqs' = [reqs EXCEPT ![i].pc = "done", ![i].result = "created"]
     /\ response' = Resp(201, "created", {}, {})
     /\ UNCHANGED <<venueWorkingHours, operatingHours, timeSlots, courtTimeSlots, bookingTimeSlots,
                 slotLoop, billing, tz, now>>

\* createBooking up to and including the conflictingBooking query
CreateFindConflict(i) ==
  LET iv == RaceInterval(i)
      r == CreateResponse(RaceTarget.courtId, RaceTarget.date, iv[1], iv[2])
  IN /\ reqs[i].pc = "new"
     /\ reqs' = [reqs EXCEPT ![i] =
                   [handler |-> "create",
                    pc |-> IF r.kind = "created" THEN "create" ELSE "done",
                    result |-> IF r.kind = "created" THEN "none" ELSE r.kind]]
     /\ response' = IF r.kind = "created" THEN response ELSE r
     /\ UNCHANGED <<bookings, venueWorkingHours, operatingHours, timeSlots, courtTimeSlots, bookingTimeSlots,
                 slotLoop, billing, tz, now>>

\* createBooking from prisma.$transaction on
CreateTransaction(i) ==
  LET iv == RaceInterval(i)
  IN /\ reqs[i].pc = "create"
     /\ reqs[i].handler = "create"
     /\ bookings' = Insert(Booking(RaceTarget.userId, RaceTarget.courtId, RaceTarget.date,
                                   ToMinutes(iv[1]), ToMinutes(iv[2]), "confirmed"))
     /\ reqs' = [reqs EXCEPT ![i].pc = "done", ![i].result = "created"]
     /\ response' = Resp(201, "created", {}, {})
     /\ UNCHANGED <<venueWorkingHours, operatingHours, timeSlots, courtTimeSlots, bookingTimeSlots,
                 slotLoop, billing, tz, now>>

\* the venue is open on Tuesday 09:00-12:00, the court has no blob, the server
\* runs in UTC: every request passes the checks before the conflict query
InitRace ==
  /\ bookings = <<>>
  /\ venueWorkingHours = <<WorkingHoursRow(2, <<9, 0>>, <<12, 0>>, TRUE)>>
  /\ operatingHours = NoHours
  /\ timeSlots = TimeSlotRows
  /\ courtTimeSlots = <<>>
  /\ bookingTimeSlots = {}
  /\ slotLoop = NoLoop
  /\ billing = NoBilling
  /\ tz = 0
  /\ now = [date |-> 4, minutes |-> 600]
  /\ response = NoResponse
  /\ reqs = [i \in 1..NumRequests |-> NewRequest]

NextRace ==
  \/ \E i \in 1..NumRequests : FlexFindConflicts(i)
  \/ \E i \in 1..NumRequests : FlexCreate(i)
  \/ \E i \in 1..NumRequests : CreateFindConflict(i)
  \/ \E i \in 1..NumRequests : CreateTransaction(i)

SpecRace == InitRace /\ [][NextRace]_vars

----------------------------------------------------------------------------
(* Specification: availability checks next to the flexible bookings *)

NextAvail ==
  \/ \E u \in Users, c \in Courts, r \in CreateRequests :
       FlexibleBooking(u, c, r.date, r.startTime, r.endTime)
  \/ \E c \in Courts, r \in CreateRequests :
       CheckAvailability(c, r.date, r.startTime, r.endTime)
  \/ \E id \in 1..MaxBookings, u \in Users : CancelBooking(id, u, NoReason)
  \/ \E session \in PaidSessions : HandleCheckoutSuccess(session)
  \/ \E wh \in WorkingHoursInputs : SetVenueWorkingHours(wh)

SpecAvail == Init /\ [][NextAvail]_vars

----------------------------------------------------------------------------
(* Specification: two customers who book, cancel and reschedule *)

Callers == {1, 2}

\* the reason of a cancel request: absent, or the customer's own words
CancelReasons == {NoReason, "rain"}

\* create requests for tomorrow: two back-to-back intervals
CancelCreates == {Request(5, A), Request(5, B)}

\* the venue is open on Tuesday 09:00-12:00, the court has no blob, the server
\* runs in UTC
InitCancel ==
  /\ bookings = <<>>
  /\ venueWorkingHours = <<WorkingHoursRow(2, <<9, 0>>, <<12, 0>>, TRUE)>>
  /\ operatingHours = NoHours
  /\ timeSlots = TimeSlotRows
  /\ courtTimeSlots = <<>>
  /\ bookingTimeSlots = {}
  /\ slotLoop = NoLoop
  /\ billing = NoBilling
  /\ tz = 0
  /\ now = [date |-> 4, minutes |-> 600]
  /\ response = NoResponse
  /\ reqs = <<>>

NextCancel ==
  \/ \E u \in Callers, c \in Courts, r \in CancelCreates :
       FlexibleBooking(u, c, r.date, r.startTime, r.endTime)
  \/ \E u \in Callers, c \in Courts, r \in CancelCreates :
       CreateBooking(u, c, r.date, r.startTime, r.endTime)
  \/ \E u \in Callers, c \in Courts :
       HandleCheckoutSuccess(Session(u, c, now.date, A[1], A[2]))
  \/ \E id \in 1..MaxBookings, u \in Callers, reason \in CancelReasons :
       CancelBooking(id, u, reason)
  \/ \E id \in 1..MaxBookings, u \in Callers :
       StripeCancelBooking(id, u, NoReason)
  \/ \E id \in 1..MaxBookings, u \in Callers :
       CancelBookingWithTimeSlots(id, u, NoReason)
  \/ \E id \in 1..MaxBookings, u \in Callers :
       RescheduleBooking(id, u, 5, D[1], D[2])
  \/ \E id \in 1..MaxBookings : CompleteBooking(id)

SpecCancel == InitCancel /\ [][NextCancel]_vars

----------------------------------------------------------------------------
(* Specification: an owner who replaces the venue's hours *)

\* the bodies of the two routes: Tuesday 09:00-12:00, Monday 09:00-12:00,
\* Tuesday not open, Tuesday opening after it closes, and a weekday 7
ReplaceBodies ==
  { <<WorkingHoursRow(2, <<9, 0>>, <<12, 0>>, TRUE)>>,
    <<WorkingHoursRow(1, <<9, 0>>, <<12, 0>>, TRUE)>>,
    <<WorkingHoursRow(2, <<9, 0>>, <<12, 0>>, FALSE)>>,
    <<WorkingHoursRow(2, <<12, 0>>, <<10, 30>>, TRUE)>>,
    <<WorkingHoursRow(7, <<9, 0>>, <<12, 0>>, TRUE)>> }

\* the same body in the field names of the operating-hours route
AsOperatingHours(body) ==
  [i \in 1..Len(body) |->
     OperatingWindow(body[i].dayOfWeek, body[i].startTime, body[i].endTime,
                     body[i].isActive)]

\* requests for today and tomorrow
HoursRequests == {Request(4, C), Request(5, A), Request(5, B), Request(5, Backwards)}

InitHours ==
  /\ bookings = <<>>
  /\ venueWorkingHours = <<>>
  /\ operatingHours = NoHours
  /\ timeSlots = TimeSlotRows
  /\ courtTimeSlots = <<>>
  /\ bookingTimeSlots = {}
  /\ slotLoop = NoLoop
  /\ billing = NoBilling
  /\ tz \in TzOffsets
  /\ now = [date |-> 4, minutes |-> 600]
  /\ response = NoResponse
  /\ reqs = <<>>

NextHours ==
  \/ \E body \in ReplaceBodies : PostWorkingHours(body)
  \/ \E body \in ReplaceBodies : PostOperatingHours(AsOperatingHours(body))
  \/ \E u \in Users, c \in Courts, r \in HoursRequests :
       FlexibleBooking(u, c, r.date, r.startTime, r.endTime)
  \/ \E c \in Courts, r \in HoursRequests :
       CheckAvailability(c, r.date, r.startTime, r.endTime)

SpecHours == InitHours /\ [][NextHours]_vars

----------------------------------------------------------------------------
(* Specification: replace calls in flight together with booking requests.  *)
(*                                                                         *)
(* Both routes await deleteMany and then await createMany, outside any     *)
(* transaction; other requests run between the two, and createMany can     *)
(* throw, which the handler answers with a 500.                            *)

Replacers == {1, 2}

\* the hours of the venue before the calls, and the body of each call: every
\* one of them has Tuesday open from 10:00 to 12:00 at least
OldWindows == <<WorkingHoursRow(2, <<9, 0>>, <<12, 0>>, TRUE)>>
ReplaceBody(i) ==
  IF i = 1 THEN <<WorkingHoursRow(2, <<10, 0>>, <<12, 0>>, TRUE)>>
  ELSE <<WorkingHoursRow(2, <<9, 0>>, <<12, 0>>, TRUE),
         WorkingHoursRow(1, <<9, 0>>, <<12, 0>>, TRUE)>>

\* the rows the service maps a body to
ServiceData(workingHours) ==
  [i \in 1..Len(workingHours) |->
     WorkingHoursRow(workingHours[i].dayOfWeek, workingHours[i].startTime,
                     workingHours[i].endTime,
                     StoredIsActive(workingHours[i].isActive))]

\* TimeSlotService.setVenueWorkingHours: deleteMany
WorkingHoursDeleteMany(i) ==
  /\ reqs[i].pc = "new"
  /\ venueWorkingHours' = <<>>
  /\ reqs' = [reqs EXCEPT ![i] = [handler |-> "working-hours", pc |-> "create",
                                  result |-> "none"]]
  /\ UNCHANGED <<bookings, operatingHours, timeSlots, courtTimeSlots, bookingTimeSlots,
                 slotLoop, billing, tz, now, response>>

\* TimeSlotService.setVenueWorkingHours: createMany, and the controller's
\* answer
WorkingHoursCreateMany(i) ==
  /\ reqs[i].pc = "create"
  /\ reqs[i].handler = "working-hours"
  /\ venueWorkingHours' = venueWorkingHours \o ServiceData(ReplaceBody(i))
  /\ reqs' = [reqs EXCEPT ![i].pc = "done", ![i].result = "hours_set"]
  /\ response' = Resp(200, "hours_set", {}, {})
  /\ UNCHANGED <<bookings, operatingHours, timeSlots, courtTimeSlots, bookingTimeSlots,
                 slotLoop, billing, tz, now>>

\* POST /venues/:venueId/operating-hours: deleteMany
OperatingHoursDeleteMany(i) ==
  /\ reqs[i].pc = "new"
  /\ venueWorkingHours' = <<>>
  /\ reqs' = [reqs EXCEPT ![i] = [handler |-> "operating-hours", pc |-> "create",
                                  result |-> "none"]]
  /\ UNCHANGED <<bookings, operatingHours, timeSlots, courtTimeSlots, bookingTimeSlots,
                 slotLoop, billing, tz, now, response>>

\* POST /venues/:venueId/operating-hours: createMany, and the answer
OperatingHoursCreateMany(i) ==
  /\ reqs[i].pc = "create"
  /\ reqs[i].handler = "operating-hours"
  /\ venueWorkingHours' = venueWorkingHours \o CreateData(AsOperatingHours(ReplaceBody(i)))
  /\ reqs' = [reqs EXCEPT ![i].pc = "done", ![i].result = "hours_set"]
  /\ response' = Resp(200, "hours_set", {}, {})
  /\ UNCHANGED <<bookings, operatingHours, timeSlots, courtTimeSlots, bookingTimeSlots,
                 slotLoop, billing, tz, now>>

\* createMany throws: the catch block of either handler answers 500
CreateManyFails(i) ==
  /\ reqs[i].pc = "create"
  /\ reqs' = [reqs EXCEPT ![i].pc = "done", ![i].result = "failed"]
  /\ response' = Resp(500, "failed", {}, {})
  /\ UNCHANGED <<bookings, venueWorkingHours, operatingHours, timeSlots, courtTimeSlots, bookingTimeSlots,
                 slotLoop, billing, tz, now>>

InitReplace ==
  /\ bookings = <<>>
  /\ venueWorkingHours = OldWindows
  /\ operatingHours = NoHours
  /\ timeSlots = TimeSlotRows
  /\ courtTimeSlots = <<>>
  /\ bookingTimeSlots = {}
  /\ slotLoop = NoLoop
  /\ billing = NoBilling
  /\ tz = 0
  /\ now = [date |-> 4, minutes |-> 600]
  /\ response = NoResponse
  /\ reqs = [i \in Replacers |-> NewRequest]

NextReplace ==
  \/ \E i \in Replacers : WorkingHoursDeleteMany(i)
  \/ \E i \in Replacers : WorkingHoursCreateMany(i)
  \/ \E i \in Replacers : OperatingHoursDeleteMany(i)
  \/ \E i \in Replacers : OperatingHoursCreateMany(i)
  \/ \E i \in Replacers : CreateManyFails(i)
  \/ \E u \in Users, c \in Courts, r \in CancelCreates :
       FlexibleBooking(u, c, r.date, r.startTime, r.endTime)
  \/ \E c \in Courts, r \in CancelCreates :
       CheckAvailability(c, r.date, r.startTime, r.endTime)

SpecReplace == InitReplace /\ [][NextReplace]_vars

----------------------------------------------------------------------------
(* The rules of the specification, in civil dates and times *)

Active(b) == b.status \in {"pending", "confirmed"}

\* two half-open intervals [s1, e1) and [s2, e2) share a minute
Overlaps(s1, e1, s2, e2) == s1 < e2 /\ s2 < e1

SameCourtAndDate(b, c, d) == b.courtId = c /\ b.bookingDate = d

\* 1970-01-01 is a Thursday
CivilWeekday(d) == (d + 4) % 7

\* the request is for a past date, or for today at or before the current time
CivilPast(d, startMinutes) ==
  d < now.date \/ (d = now.date /\ startMinutes <= now.minutes)

\* the open windows of the court for the date: the court's own, else the
\* venue's weekly rows
WindowsFor(d) ==
  IF operatingHours # NoHours
    THEN IF CivilWeekday(d) \in operatingHours.daysOfWeek
           /\ (operatingHours.startDate = NoDate \/ d >= operatingHours.startDate)
           /\ (operatingHours.endDate = NoDate \/ d <= operatingHours.endDate)
           THEN {<<OpStartMinutes, OpEndMinutes>>}
           ELSE {}
    ELSE {<<ToMinutes(venueWorkingHours[i].startTime),
            ToMinutes(venueWorkingHours[i].endTime)>> :
            i \in {j \in 1..Len(venueWorkingHours) :
                     /\ venueWorkingHours[j].dayOfWeek = CivilWeekday(d)
                     /\ venueWorkingHours[j].isActive}}

\* the availability rules accept the interval on the court and date
RulesAccept(c, d, s, e) ==
  /\ ~CivilPast(d, s)
  /\ s < e
  /\ \E w \in WindowsFor(d) : s >= w[1] /\ e <= w[2]
  /\ \A i \in Ids :
       SameCourtAndDate(bookings[i], c, d) /\ Active(bookings[i])
         => ~Overlaps(bookings[i].startTime, bookings[i].endTime, s, e)

\* the step ends with one of the statuses the create handlers answer with
CreateAnswered == response'.status \in {201, 400, 409}

----------------------------------------------------------------------------
(* Claims *)

\* C1: no two pending or confirmed bookings of the same court on the same
\* date have overlapping half-open intervals, after any sequence of booking
\* operations.
C1_NonOverlap ==
  \A i \in Ids, j \in Ids :
    (/\ i < j
     /\ Active(bookings[i]) /\ Active(bookings[j])
     /\ SameCourtAndDate(bookings[j], bookings[i].courtId, bookings[i].bookingDate))
    => ~Overlaps(bookings[i].startTime, bookings[i].endTime,
                 bookings[j].startTime, bookings[j].endTime)

\* C2: when the concurrent create requests for mutually overlapping intervals
\* of one court and date have all been answered, exactly one was answered
\* with a created booking and every other one with a conflict.
C2_ExactlyOneReserved ==
  (\A i \in DOMAIN reqs : reqs[i].pc = "done")
    => /\ Cardinality({i \in DOMAIN reqs : reqs[i].result = "created"}) = 1
       /\ \A i \in DOMAIN reqs : reqs[i].result \in {"created", "conflict"}

\* C3: a step that adds a row to the booking table adds a booking that the
\* availability rules accept in the state the step starts from.
C3_PersistedOnlyIfAccepted ==
  [][Len(bookings') = Len(bookings) + 1
       => LET b == bookings'[Len(bookings')]
          IN RulesAccept(b.courtId, b.bookingDate, b.startTime, b.endTime)]_vars

\* the bookings of the court on the date that a conflict query can return
\* all lie back-to-back with [s, e): there is an active one, and each is a
\* non-empty interval that ends where [s, e) starts or starts where it ends
OnlyAbutting(c, d, s, e) ==
  LET same == {i \in Ids : /\ SameCourtAndDate(bookings[i], c, d)
                           /\ bookings[i].status # "cancelled"}
  IN /\ \E i \in same : Active(bookings[i])
     /\ \A i \in same :
          /\ bookings[i].startTime < bookings[i].endTime
          /\ bookings[i].endTime = s \/ bookings[i].startTime = e

\* C4: a request whose interval only touches the bookings of the court on the
\* date at an endpoint finds no conflict, and is created by either create
\* handler when it passes the handler's other checks.
C4_HalfOpenBoundary ==
  [][CreateAnswered => \A u \in Users, c \in Courts, r \in CreateRequests :
       LET s == ToMinutes(r.startTime)
           e == ToMinutes(r.endTime)
       IN (s < e /\ OnlyAbutting(c, r.date, s, e))
          => /\ FlexConflicts(c, r.date, s, e) = {}
             /\ CreateConflicts(c, r.date, s, e) = {}
             /\ (/\ FlexValidate(c, r.date, r.startTime, r.endTime).kind = "ok"
                 /\ FlexibleBooking(u, c, r.date, r.startTime, r.endTime))
                => /\ response'.kind = "created"
                   /\ bookings' = Append(bookings, Booking(u, c, r.date, s, e, "confirmed"))
             /\ (/\ CreateValidate(c, r.date, r.startTime, r.endTime).kind = "ok"
                 /\ CreateBooking(u, c, r.date, r.startTime, r.endTime))
                => /\ response'.kind = "created"
                   /\ bookings' = Append(bookings, Booking(u, c, r.date, s, e, "confirmed"))]_vars

\* a create handler has just stored a booking back-to-back with an earlier
\* confirmed booking of the court and date
C4_BackToBackCreated ==
  /\ response.status = 201
  /\ Len(bookings) = 2
  /\ Active(bookings[1]) /\ Active(bookings[2])
  /\ SameCourtAndDate(bookings[2], bookings[1].courtId, bookings[1].bookingDate)
  /\ bookings[1].startTime < bookings[1].endTime
  /\ bookings[2].startTime < bookings[2].endTime
  /\ \/ bookings[1].endTime = bookings[2].startTime
     \/ bookings[2].endTime = bookings[1].startTime

\* C5: a create or reschedule handler answers with a conflict only when its
\* conflict query returns a pending or confirmed booking; cancelled and
\* completed bookings alone never cause the rejection.
C5_OnlyActiveBlock ==
  [][/\ \A u \in Users, c \in Courts, r \in CreateRequests :
          LET s == ToMinutes(r.startTime)
              e == ToMinutes(r.endTime)
          IN /\ (/\ FlexibleBooking(u, c, r.date, r.startTime, r.endTime)
                 /\ response'.kind = "conflict")
                => \E i \in FlexConflicts(c, r.date, s, e) : Active(bookings[i])
             /\ (/\ CreateBooking(u, c, r.date, r.startTime, r.endTime)
                 /\ response'.kind = "conflict")
                => \E i \in CreateConflicts(c, r.date, s, e) : Active(bookings[i])
     /\ \A id \in 1..MaxBookings, u \in Users, r \in RescheduleRequests :
          (/\ RescheduleBooking(id, u, r.date, r.startTime, r.endTime)
           /\ response'.kind = "conflict")
          => \E i \in RescheduleConflicts(id, r.date, ToMinutes(r.startTime),
                                          ToMinutes(r.endTime)) :
               Active(bookings[i])]_vars

\* the court has no operating hours and the venue has no row for the weekday
\* of the date
NoWindows(d) ==
  /\ operatingHours = NoHours
  /\ \A i \in 1..Len(venueWorkingHours) :
       venueWorkingHours[i].dayOfWeek # CivilWeekday(d)

\* C6: when the court has no window and the venue none for the requested
\* weekday, a create request that passes the range and past checks of its
\* handler is answered as venue closed and stores nothing.
C6_ClosedByDefault ==
  [][\A u \in Users, c \in Courts, r \in CreateRequests :
       (/\ NoWindows(r.date)
        /\ ToMinutes(r.startTime) < ToMinutes(r.endTime)
        /\ ~PastDate(r.date) /\ ~PastTime(r.date, ToMinutes(r.startTime))
        /\ \/ FlexibleBooking(u, c, r.date, r.startTime, r.endTime)
           \/ CreateBooking(u, c, r.date, r.startTime, r.endTime))
       => response'.kind = "closed" /\ bookings' = bookings]_vars

\* no open window is found for the weekday
ClosedOn(dayOfWeek) == MatchingHours(dayOfWeek) = {}

\* C7: after the owner sets working hours that carry a window with
\* isActive = false for a weekday, the weekday is closed: the lookup of the
\* booking handlers finds no open window for it.
C7_InactiveWindowCloses ==
  [][\A wh \in WorkingHoursInputs :
       SetVenueWorkingHours(wh)
         => \A k \in 1..Len(wh) : ~wh[k].isActive => ClosedOn(wh[k].dayOfWeek)']_vars

\* C8: a create request with start < end for a date before today is rejected
\* as a past date; one for today that starts at or before the current time
\* is rejected as past; one that starts later today, or on a later date, is
\* not rejected by the past rules.
C8_PastRejection ==
  [][\A u \in Users, c \in Courts, r \in CreateRequests :
       LET s == ToMinutes(r.startTime)
       IN (/\ s < ToMinutes(r.endTime)
           /\ \/ FlexibleBooking(u, c, r.date, r.startTime, r.endTime)
              \/ CreateBooking(u, c, r.date, r.startTime, r.endTime))
          => /\ r.date < now.date => response'.kind = "past_date"
             /\ (r.date = now.date /\ s <= now.minutes)
                  => response'.kind \in {"past_date", "past_time"}
             /\ ~CivilPast(r.date, s)
                  => response'.kind \notin {"past_date", "past_time"}]_vars

\* C9: every stored booking starts before it ends.
C9_StoredStartBeforeEnd ==
  \A i \in Ids : bookings[i].startTime < bookings[i].endTime

\* a create request reaches the daily-hours comparison of its handler
ReachesFlexHours(d, s, e) ==
  /\ venueWorkingHours # <<>>
  /\ s < e /\ ~PastDate(d) /\ ~PastTime(d, s)
  /\ MatchingHours(GetDay(d)) # {}

ReachesCreateHours(d, s, e) ==
  /\ operatingHours # NoHours
  /\ s < e /\ ~PastDate(d) /\ ~PastTime(d, s)
  /\ GetDay(d) \in operatingHours.daysOfWeek
  /\ operatingHours.startDate = NoDate \/ d >= operatingHours.startDate
  /\ operatingHours.endDate = NoDate \/ d <= operatingHours.endDate

C11_CheckMatchesCreate ==
  [][\A c \in Courts, r \in CreateRequests :
       CheckAvailability(c, r.date, r.startTime, r.endTime)
         => (response'.kind = "available"
               <=> FlexResponse(c, r.date, r.startTime, r.endTime).kind = "created")]_vars

\* the pending and confirmed bookings of the court on the date whose
\* half-open interval overlaps [s, e)
OverlappingActive(c, d, s, e) ==
  {i \in Ids : /\ SameCourtAndDate(bookings[i], c, d)
               /\ Active(bookings[i])
               /\ Overlaps(bookings[i].startTime, bookings[i].endTime, s, e)}

\* C12: a create request that passes the checks before the conflict query
\* and overlaps one or more pending or confirmed bookings of the court and
\* date is answered with a conflict, stores nothing, and the answer lists
\* every one of the overlapping bookings.
C12_ConflictListsAll ==
  [][CreateAnswered => \A u \in Users, c \in Courts, r \in CreateRequests :
       LET s == ToMinutes(r.startTime)
           e == ToMinutes(r.endTime)
           overlapping == OverlappingActive(c, r.date, s, e)
       IN overlapping # {}
          => /\ (/\ FlexValidate(c, r.date, r.startTime, r.endTime).kind = "ok"
                 /\ FlexibleBooking(u, c, r.date, r.startTime, r.endTime))
                => /\ bookings' = bookings
                   /\ response'.kind = "conflict"
                   /\ ConflictPayload(overlapping) \subseteq response'.conflicts
             /\ (/\ CreateValidate(c, r.date, r.startTime, r.endTime).kind = "ok"
                 /\ CreateBooking(u, c, r.date, r.startTime, r.endTime))
                => /\ bookings' = bookings
                   /\ response'.kind = "conflict"
                   /\ ConflictPayload(overlapping) \subseteq response'.conflicts]_vars

\* the step ends with one of the answers of the cancel handlers
CancelAnswered == response'.kind \in {"cancelled", "not_found", "already_cancelled"}

\* one of the three cancel handlers runs for the booking, the caller and the
\* reason
SomeCancel(id, u, reason) ==
  \/ CancelBooking(id, u, reason)
  \/ StripeCancelBooking(id, u, reason)
  \/ CancelBookingWithTimeSlots(id, u, reason)

\* C13: a cancel request of the owner for a booking that is cancelled already
\* is answered without an error and leaves the booking table as it is.
C13_IdempotentCancel ==
  [][\A id \in 1..MaxBookings, u \in Callers, reason \in CancelReasons :
       (/\ id \in Ids
        /\ bookings[id].userId = u
        /\ bookings[id].status = "cancelled"
        /\ SomeCancel(id, u, reason))
       => response'.status = 200 /\ bookings' = bookings]_vars

\* C14: a step changes the status of a booking only from pending or
\* confirmed to cancelled, or from confirmed to completed; the status of a
\* cancelled booking never changes.
C14_StatusTransitions ==
  [][\A id \in Ids :
       LET old == bookings[id].status
           new == bookings'[id].status
       IN old # new
          => \/ old \in {"pending", "confirmed"} /\ new = "cancelled"
             \/ old = "confirmed" /\ new = "completed"]_vars

\* C15: no step changes the date, start or end of a stored booking; a
\* reschedule that succeeds leaves the original cancelled and adds a new
\* booking.
C15_IntervalNeverChanges ==
  [][/\ \A id \in Ids :
          /\ bookings'[id].bookingDate = bookings[id].bookingDate
          /\ bookings'[id].startTime = bookings[id].startTime
          /\ bookings'[id].endTime = bookings[id].endTime
     /\ \A id \in 1..MaxBookings, u \in Callers :
          (RescheduleBooking(id, u, 5, D[1], D[2]) /\ response'.status = 200)
          => /\ bookings'[id].status = "cancelled"
             /\ Len(bookings') = Len(bookings) + 1]_vars

\* a cancelled booking of the court and date holds exactly [s, e), and every
\* booking of the court and date that is not cancelled is a non-empty
\* interval that does not overlap [s, e)
Released(c, d, s, e) ==
  /\ \E i \in Ids : /\ SameCourtAndDate(bookings[i], c, d)
                     /\ bookings[i].status = "cancelled"
                     /\ bookings[i].startTime = s /\ bookings[i].endTime = e
  /\ \A i \in Ids :
       (SameCourtAndDate(bookings[i], c, d) /\ bookings[i].status # "cancelled")
       => /\ bookings[i].startTime < bookings[i].endTime
          /\ ~Overlaps(bookings[i].startTime, bookings[i].endTime, s, e)

C17_OnlyOwnerCancels ==
  [][/\ CancelAnswered => \A id \in Ids, u \in Callers, reason \in CancelReasons :
          (bookings[id].userId # u /\ SomeCancel(id, u, reason))
          => response'.status >= 400 /\ bookings' = bookings
     /\ \A id \in Ids :
          (bookings[id].status # "cancelled" /\ bookings'[id].status = "cancelled")
          => \E reason \in CancelReasons : SomeCancel(id, bookings[id].userId, reason)]_vars

\* a request for a confirmed booking of customer 1 has just been answered
\* "not found" while every stored booking is customer 1's and confirmed
C17_StrangerRefused ==
  /\ response.kind = "not_found"
  /\ Len(bookings) >= 2
  /\ \A i \in Ids : bookings[i].userId = 1 /\ bookings[i].status = "confirmed"

\* one of the two routes that replace the venue's hours runs with the body
SomeReplace(body) ==
  \/ PostWorkingHours(body)
  \/ PostOperatingHours(AsOperatingHours(body))

\* C18: after a replace call that succeeds, the stored windows of the venue
\* are exactly the windows of the body; and a booking request that passes
\* the range and past checks, for a date on whose weekday no window is
\* stored, is rejected as venue closed.
C18_ReplaceWipesOld ==
  [][/\ \A body \in ReplaceBodies :
          (SomeReplace(body) /\ response'.status = 200)
          => venueWorkingHours' = body
     /\ \A u \in Users, c \in Courts, r \in HoursRequests :
          (/\ NoWindows(r.date)
           /\ ToMinutes(r.startTime) < ToMinutes(r.endTime)
           /\ ~CivilPast(r.date, ToMinutes(r.startTime))
           /\ FlexibleBooking(u, c, r.date, r.startTime, r.endTime))
          => response'.kind = "closed" /\ bookings' = bookings]_vars

\* the body has a window that is open with opening time >= closing time, or
\* a window with a weekday outside 0..6
InvalidWindows(body) ==
  \E i \in 1..Len(body) :
    \/ body[i].isActive /\ ToMinutes(body[i].startTime) >= ToMinutes(body[i].endTime)
    \/ body[i].dayOfWeek \notin 0..6

\* C20: a replace call whose body has an invalid window is answered with a
\* validation error and leaves the stored windows unchanged; every stored
\* open window opens before it closes.
C20_WindowValidation ==
  [][/\ \A body \in ReplaceBodies :
          (InvalidWindows(body) /\ SomeReplace(body))
          => response'.status = 400 /\ venueWorkingHours' = venueWorkingHours
     /\ \A i \in 1..Len(venueWorkingHours') :
          venueWorkingHours'[i].isActive
          => ToMinutes(venueWorkingHours'[i].startTime)
               < ToMinutes(venueWorkingHours'[i].endTime)]_vars

\* C19: while replace calls run, a booking or availability request for
\* Tuesday 10:00-12:00, which the old windows and the windows of every
\* caller have open, is never answered as venue closed; and once every call
\* has ended, with or without a failed insert, the stored windows are the
\* set from before the calls or the complete set of one caller.
C19_ReplaceIsAtomic ==
  [][/\ \A u \in Users, c \in Courts :
          (\/ FlexibleBooking(u, c, 5, B[1], B[2])
           \/ CheckAvailability(c, 5, B[1], B[2]))
          => response'.kind # "closed"
     /\ (\A i \in Replacers : reqs'[i].pc = "done")
          => venueWorkingHours' \in {OldWindows} \cup {ReplaceBody(i) : i \in Replacers}]_vars

----------------------------------------------------------------------------
(* Billing: the totalAmount a create handler stores *)

\* req.body.totalAmount was not sent (undefined)
NoAmount == 0 - 1

\* court.pricePerHour, and the totalAmount values a caller sends.  The prices
\* are multiples of 10 and the intervals multiples of 30 minutes, so the
\* division by 60 below is exact as the handlers' floating-point division is.
Prices == {10, 20, 30, 40}
SuppliedAmounts == {NoAmount, 0, 1, 5, 20}

\* durationMinutes = endMinutes - startMinutes
DurationMinutes(s, e) == ToMinutes(e) - ToMinutes(s)

\* POST /flexible-booking: durationHours * parseFloat(court.pricePerHour)
FlexTotalAmount(s, e, pricePerHour) == (DurationMinutes(s, e) * pricePerHour) \div 60

\* a || b of JavaScript: b when a is undefined or 0
Falsy(a) == a = NoAmount \/ a = 0

\* createBooking: totalAmount || court.pricePerHour * (durationInMinutes / 60)
FinalAmount(totalAmount, s, e, pricePerHour) ==
  IF Falsy(totalAmount)
  THEN (pricePerHour * DurationMinutes(s, e)) \div 60
  ELSE totalAmount

Billed(handler, s, e, pricePerHour, supplied, amount) ==
  [handler |-> handler, startTime |-> s, endTime |-> e,
   pricePerHour |-> pricePerHour, supplied |-> supplied, totalAmount |-> amount]

\* the totalAmount of the row POST /flexible-booking creates; the handler
\* does not read an amount from the body
FlexibleBookingAmount(s, e, pricePerHour, supplied) ==
  /\ billing' = Billed("flexible-booking", s, e, pricePerHour, supplied,
                       FlexTotalAmount(s, e, pricePerHour))
  /\ UNCHANGED <<bookings, venueWorkingHours, operatingHours, timeSlots,
                 courtTimeSlots, bookingTimeSlots, slotLoop, tz, now, response, reqs>>

\* the totalAmount of the row createBooking creates
CreateBookingAmount(s, e, pricePerHour, supplied) ==
  /\ billing' = Billed("createBooking", s, e, pricePerHour, supplied,
                       FinalAmount(supplied, s, e, pricePerHour))
  /\ UNCHANGED <<bookings, venueWorkingHours, operatingHours, timeSlots,
                 courtTimeSlots, bookingTimeSlots, slotLoop, tz, now, response, reqs>>

InitBilling ==
  /\ bookings = <<>>
  /\ venueWorkingHours = <<>>
  /\ operatingHours = NoHours
  /\ timeSlots = TimeSlotRows
  /\ courtTimeSlots = <<>>
  /\ bookingTimeSlots = {}
  /\ slotLoop = NoLoop
  /\ billing = NoBilling
  /\ tz = 0
  /\ now = [date |-> 4, minutes |-> 600]
  /\ response = NoResponse
  /\ reqs = <<>>

NextBilling ==
  \/ \E r \in ValidIntervals, p \in Prices, a \in SuppliedAmounts :
       FlexibleBookingAmount(r[1], r[2], p, a)
  \/ \E r \in ValidIntervals, p \in Prices, a \in SuppliedAmounts :
       CreateBookingAmount(r[1], r[2], p, a)

SpecBilling == InitBilling /\ [][NextBilling]_vars

\* C21: the totalAmount stored by a create handler is the duration in hours
\* times the court's pricePerHour, whatever amount the caller sent.
C21_AmountFromDuration ==
  billing.handler # "none"
  => billing.totalAmount * 60
       = DurationMinutes(billing.startTime, billing.endTime) * billing.pricePerHour

----------------------------------------------------------------------------
(* Specification: the stripe controller with a mail transport that may fail *)

\* handleCheckoutSuccess with a paid session: the confirmation email and the
\* payment-success email are each sent inside their own try/catch, which
\* logs a failure and goes on to res.json
HandleCheckoutSuccessMail(session, confirmationMail, paymentMail) ==
  /\ confirmationMail \in MailOutcomes
  /\ paymentMail \in MailOutcomes
  /\ HandleCheckoutSuccess(session)

MailSessions == {Session(u, 1, 5, r[1], r[2]) : u \in Callers, r \in {A, B}}

InitMail == InitCancel

NextMail ==
  \/ \E session \in MailSessions, m1 \in MailOutcomes, m2 \in MailOutcomes :
       HandleCheckoutSuccessMail(session, m1, m2)
  \/ \E id \in 1..MaxBookings, u \in Callers, reason \in CancelReasons, mail \in MailOutcomes :
       StripeCancelBookingMail(id, u, reason, mail)

SpecMail == InitMail /\ [][NextMail]_vars

\* C22: when an email fails after the booking was created or cancelled, the
\* stored booking stays as the handler wrote it and the caller gets a
\* success response.
C22_MailFailureKeepsSuccess ==
  [][/\ \A session \in MailSessions, m1 \in MailOutcomes, m2 \in MailOutcomes :
          (("failed" \in {m1, m2}) /\ HandleCheckoutSuccessMail(session, m1, m2))
          => /\ response'.status = 200
             /\ Len(bookings') = Len(bookings) + 1
     /\ \A id \in Ids, u \in Callers, reason \in CancelReasons :
          (/\ bookings[id].status # "cancelled"
           /\ StripeCancelBookingMail(id, u, reason, "failed")
           /\ bookings'[id].status = "cancelled")
          => response'.status = 200]_vars

----------------------------------------------------------------------------
\* C23: for an active stored booking with a non-empty interval and a
\* non-empty requested interval on the same court and date, the conflict
\* query of POST /flexible-booking, of createBooking, of rescheduleBooking
\* and the test of POST /check-availability each flag the booking iff the
\* two intervals overlap as half-open intervals.
C23_ConflictIsOverlap ==
  \A i \in Ids, r \in ValidIntervals :
    LET b == bookings[i]
        s == ToMinutes(r[1])
        e == ToMinutes(r[2])
        overlap == s < b.endTime /\ b.startTime < e
    IN (Active(b) /\ b.startTime < b.endTime)
       => /\ i \in FlexConflicts(b.courtId, b.bookingDate, s, e) <=> overlap
          /\ i \in CreateConflicts(b.courtId, b.bookingDate, s, e) <=> overlap
          /\ \A id \in Ids \ {i} :
               bookings[id].courtId = b.courtId
               => (i \in RescheduleConflicts(id, b.bookingDate, s, e) <=> overlap)
          /\ (i \in ExistingBookings(b.courtId, b.bookingDate) /\ HasConflict(b, s, e))
               <=> overlap

----------------------------------------------------------------------------
\* C24: a create request that violates several availability rules is
\* rejected with the earliest violated rule of the order past date, past
\* time, invalid range, the hours rules: a request for a past date is
\* answered with the past-date rejection, one for a past time of today with
\* the past-time rejection, and only then an invalid range is reported.
C24_EarliestRuleReported ==
  [][\A u \in Users, c \in Courts, r \in CreateRequests :
       (/\ response'.status = 400
        /\ \/ FlexibleBooking(u, c, r.date, r.startTime, r.endTime)
           \/ CreateBooking(u, c, r.date, r.startTime, r.endTime))
       => LET start == ToMinutes(r.startTime)
              end == ToMinutes(r.endTime)
          IN /\ PastDate(r.date) => response'.kind = "past_date"
             /\ (~PastDate(r.date) /\ PastTime(r.date, start))
                  => response'.kind = "past_time"
             /\ (~PastDate(r.date) /\ ~PastTime(r.date, start) /\ start >= end)
                  => response'.kind = "invalid_range"]_vars

----------------------------------------------------------------------------
\* the bookings created from the metadata of a checkout session; in SpecMail
\* the sessions differ in user or interval and no other handler creates rows
CreatedFrom(session) ==
  {i \in Ids :
     /\ bookings[i].userId = session.userId
     /\ bookings[i].courtId = session.courtId
     /\ bookings[i].bookingDate = session.date
     /\ bookings[i].startTime = ToMinutes(session.startTime)
     /\ bookings[i].endTime = ToMinutes(session.endTime)}

\* C25: however often handleCheckoutSuccess is called with the same paid
\* session, at most one booking is stored for that session.
C25_OneBookingPerSession ==
  \A session \in MailSessions : Cardinality(CreatedFrom(session)) <= 1

----------------------------------------------------------------------------
(* Court time slots: createBookingWithTimeSlots and the TimeSlotService *)

\* the court has NumSlots generated slots on the requested date: slot k is
\* the hour that starts at 09:00 + (k - 1) hours
NumSlots == 2
SlotIds == 1..NumSlots
SlotDate == 5
SlotStart(k) == 540 + (k - 1) * 60
SlotEnd(k) == SlotStart(k) + 60

\* a CourtTimeSlot row as generateTimeSlotsForVenue creates it
GeneratedSlot == [isAvailable |-> TRUE, isBlocked |-> FALSE]

\* the timeSlotIds of a request
SlotSelections == {{1}, {2}, {1, 2}}

\* the number of createBookingWithTimeSlots requests in flight at a time
SlotRequesters == {1, 2}

IdleRequest == [pc |-> "idle", userId |-> 0, timeSlotIds |-> {}, bookingId |-> 0]

\* the one-to-one relation courtTimeSlot.bookingTimeSlot
Linked(k) == \E l \in bookingTimeSlots : l.courtTimeSlotId = k

\* findMany({id in timeSlotIds, isAvailable: true, isBlocked: false,
\* bookingTimeSlot: null})
AvailableSlots(timeSlotIds) ==
  {k \in timeSlotIds \cap DOMAIN courtTimeSlots :
     /\ courtTimeSlots[k].isAvailable
     /\ ~courtTimeSlots[k].isBlocked
     /\ ~Linked(k)}

\* min of the start times, max of the end times of the slots
FirstStart(timeSlotIds) ==
  CHOOSE t \in {SlotStart(k) : k \in timeSlotIds} :
    \A k \in timeSlotIds : t <= SlotStart(k)
LastEnd(timeSlotIds) ==
  CHOOSE t \in {SlotEnd(k) : k \in timeSlotIds} :
    \A k \in timeSlotIds : t >= SlotEnd(k)

\* a request arrives
SubmitSlotRequest(i, u, timeSlotIds) ==
  /\ reqs[i].pc = "idle"
  /\ reqs' = [reqs EXCEPT ![i] = [pc |-> "verify", userId |-> u,
                                  timeSlotIds |-> timeSlotIds, bookingId |-> 0]]
  /\ UNCHANGED <<bookings, venueWorkingHours, operatingHours, timeSlots, courtTimeSlots,
                 bookingTimeSlots, slotLoop, billing, tz, now, response>>

\* the handler's own findMany: 400 unless every requested slot is available
VerifySlots(i) ==
  /\ reqs[i].pc = "verify"
  /\ IF Cardinality(AvailableSlots(reqs[i].timeSlotIds)) # Cardinality(reqs[i].timeSlotIds)
       THEN /\ response' = Resp(400, "slots_unavailable", {}, {})
            /\ reqs' = [reqs EXCEPT ![i] = IdleRequest]
       ELSE /\ response' = response
            /\ reqs' = [reqs EXCEPT ![i].pc = "create"]
  /\ UNCHANGED <<bookings, venueWorkingHours, operatingHours, timeSlots, courtTimeSlots,
                 bookingTimeSlots, slotLoop, billing, tz, now>>

\* prisma.booking.create with status confirmed
CreateSlotBooking(i) ==
  /\ reqs[i].pc = "create"
  /\ Len(bookings) < MaxBookings
  /\ bookings' = Insert(Booking(reqs[i].userId, 1, SlotDate,
                                FirstStart(reqs[i].timeSlotIds),
                                LastEnd(reqs[i].timeSlotIds), "confirmed"))
  /\ reqs' = [reqs EXCEPT ![i].pc = "book", ![i].bookingId = Len(bookings) + 1]
  /\ UNCHANGED <<venueWorkingHours, operatingHours, timeSlots, courtTimeSlots,
                 bookingTimeSlots, slotLoop, billing, tz, now, response>>

\* bookTimeSlots, its findMany: throws unless every slot is available; the
\* handler's catch answers 500
BookVerify(i) ==
  /\ reqs[i].pc = "book"
  /\ IF Cardinality(AvailableSlots(reqs[i].timeSlotIds)) # Cardinality(reqs[i].timeSlotIds)
       THEN /\ response' = Resp(500, "error", {}, {})
            /\ reqs' = [reqs EXCEPT ![i] = IdleRequest]
       ELSE /\ response' = response
            /\ reqs' = [reqs EXCEPT ![i].pc = "link"]
  /\ UNCHANGED <<bookings, venueWorkingHours, operatingHours, timeSlots, courtTimeSlots,
                 bookingTimeSlots, slotLoop, billing, tz, now>>

\* a link table without the unique index
NoUniqueIndex(timeSlotIds) == FALSE

\* the unique index on BookingTimeSlot.courtTimeSlotId that the one-to-one
\* relation has: an insert for a linked slot is refused
UniqueViolation(timeSlotIds) == \E k \in timeSlotIds : Linked(k)

\* bookTimeSlots, its bookingTimeSlot.createMany: one INSERT for all rows
LinkSlots(i) ==
  /\ reqs[i].pc = "link"
  /\ IF UniqueViolation(reqs[i].timeSlotIds)
       THEN /\ response' = Resp(500, "error", {}, {})
            /\ reqs' = [reqs EXCEPT ![i] = IdleRequest]
            /\ bookingTimeSlots' = bookingTimeSlots
       ELSE /\ response' = response
            /\ reqs' = [reqs EXCEPT ![i].pc = "mark"]
            /\ bookingTimeSlots' =
                 bookingTimeSlots \cup
                   {[bookingId |-> reqs[i].bookingId, courtTimeSlotId |-> k] :
                      k \in reqs[i].timeSlotIds}
  /\ UNCHANGED <<bookings, venueWorkingHours, operatingHours, timeSlots, courtTimeSlots,
                 slotLoop, billing, tz, now>>

\* bookTimeSlots, its courtTimeSlot.updateMany({isAvailable: false}), then
\* the handler's 201
MarkUnavailable(i) ==
  /\ reqs[i].pc = "mark"
  /\ courtTimeSlots' =
       [k \in DOMAIN courtTimeSlots |->
          IF k \in reqs[i].timeSlotIds
            THEN [courtTimeSlots[k] EXCEPT !.isAvailable = FALSE]
            ELSE courtTimeSlots[k]]
  /\ response' = Resp(201, "created", {}, {})
  /\ reqs' = [reqs EXCEPT ![i] = IdleRequest]
  /\ UNCHANGED <<bookings, venueWorkingHours, operatingHours, timeSlots,
                 bookingTimeSlots, slotLoop, billing, tz, now>>

InitSlots ==
  /\ bookings = <<>>
  /\ venueWorkingHours = <<>>
  /\ operatingHours = NoHours
  /\ timeSlots = TimeSlotRows
  /\ courtTimeSlots = [k \in SlotIds |-> GeneratedSlot]
  /\ bookingTimeSlots = {}
  /\ slotLoop = NoLoop
  /\ billing = NoBilling
  /\ tz = 0
  /\ now = [date |-> 4, minutes |-> 600]
  /\ response = NoResponse
  /\ reqs = [i \in SlotRequesters |-> IdleRequest]

NextSlots ==
  \/ \E i \in SlotRequesters, u \in Users, timeSlotIds \in SlotSelections :
       SubmitSlotRequest(i, u, timeSlotIds)
  \/ \E i \in SlotRequesters : VerifySlots(i)
  \/ \E i \in SlotRequesters : CreateSlotBooking(i)
  \/ \E i \in SlotRequesters : BookVerify(i)
  \/ \E i \in SlotRequesters : LinkSlots(i)
  \/ \E i \in SlotRequesters : MarkUnavailable(i)
  \/ \E id \in 1..MaxBookings, u \in Users : CancelBookingWithTimeSlots(id, u, NoReason)

SpecSlots == InitSlots /\ [][NextSlots]_vars

RequestedSlots(b) ==
  {k \in SlotIds : b.startTime <= SlotStart(k) /\ SlotEnd(k) <= b.endTime}

InFlight(id) == \E i \in SlotRequesters : reqs[i].pc # "idle" /\ reqs[i].bookingId = id

\* C27: every confirmed booking of a request that has ended is linked to
\* exactly the slots it was created for; in particular no confirmed booking
\* without links is left behind when bookTimeSlots fails.
C27_AllOrNothing ==
  \A id \in Ids :
    (bookings[id].status = "confirmed" /\ ~InFlight(id))
    => LinkedSlots(id) = RequestedSlots(bookings[id])

----------------------------------------------------------------------------
(* Specification: the slot handlers and the provider's block switch *)

\* TimeSlotService.toggleTimeSlotBlock: updateMany({id in timeSlotIds},
\* {isBlocked, isAvailable: !isBlocked})
ToggleTimeSlotBlock(timeSlotIds, isBlocked) ==
  /\ courtTimeSlots' =
       [k \in DOMAIN courtTimeSlots |->
          IF k \in timeSlotIds
            THEN [isAvailable |-> ~isBlocked, isBlocked |-> isBlocked]
            ELSE courtTimeSlots[k]]
  /\ UNCHANGED <<bookings, venueWorkingHours, operatingHours, timeSlots,
                 bookingTimeSlots, slotLoop, billing, tz, now, response, reqs>>

NextSlotFlags ==
  \/ NextSlots
  \/ \E timeSlotIds \in SlotSelections, isBlocked \in BOOLEAN :
       ToggleTimeSlotBlock(timeSlotIds, isBlocked)

SpecSlotFlags == InitSlots /\ [][NextSlotFlags]_vars

\* a bookTimeSlots call has inserted the link of slot k and has not yet
\* marked the slot
BeingBooked(k) ==
  \E i \in SlotRequesters : reqs[i].pc = "mark" /\ k \in reqs[i].timeSlotIds

\* C28: no court time slot is blocked and available at once, and no slot that
\* is linked to a booking is available, once the call that linked it has
\* returned.
C28_FlagsConsistent ==
  \A k \in SlotIds :
    /\ ~(courtTimeSlots[k].isBlocked /\ courtTimeSlots[k].isAvailable)
    /\ (Linked(k) /\ ~BeingBooked(k)) => ~courtTimeSlots[k].isAvailable

----------------------------------------------------------------------------
(* Slot generation: generateDailySlots of the time-slot controller and
   TimeSlotService.generateDailyTimeSlots *)

\* The loop that is running is slotLoop: which function (fn), its inputs
\* (startTime, endTime, slotDuration, price), its position (pc: "test" is
\* the while condition, "body" the loop body, "done" the return), the loop
\* variable (current) and the slots produced so far.  Times are minutes.

\* req.body of POST /venues/:venueId/generate-slots: the route validates
\* days only and the controller passes slotDuration on as it came
LoopStartTimes == {<<9, 0>>, <<10, 0>>}
LoopEndTimes == {<<10, 0>>, <<11, 0>>}
RequestDurations == {0, 20, 30, 60}

\* the arguments generateDailyTimeSlots is checked with
ServiceWindows ==
  {<<<<1, 0>>, <<4, 0>>>>, <<<<9, 0>>, <<11, 0>>>>, <<<<9, 0>>, <<10, 30>>>>,
   <<<<9, 0>>, <<9, 0>>>>}
ServiceDurations == {30, 60, 90}

\* The server's zone on the day the service function runs: without a
\* daylight-saving transition (shift 0), or with the clocks going forward
\* by DstShift minutes at the local time DstAt
DstAt == 2 * 60
DstShift == 60
DayShifts == {0, DstShift}

\* new Date(`${today}T${time}`): the instant of a local time of today, in
\* minutes elapsed since local midnight; a time inside the skipped hour is
\* read with the offset before the transition
LocalToInstant(w, shift) == IF w < DstAt + shift THEN w ELSE w - shift

\* date.toTimeString().slice(0, 8): the local time of day of an instant
ToTimeString(m, shift) == (IF m < DstAt THEN m ELSE m + shift) % MinutesPerDay

\* date.getDay() + 1 of the day the slots are generated for: today
LoopDayOfWeek == ((now.date + 4) % 7) + 1

\* generateVenueTimeSlots with a courtId calls generateDailySlots for a day;
\* new Date(`2000-01-01 ${startTime}:00`) and setMinutes work in local time
\* on a day without a transition
StartGenerateDailySlots(startTime, endTime, slotDuration) ==
  /\ slotLoop.pc = "idle"
  /\ slotLoop' = [pc |-> "test", fn |-> "generateDailySlots",
                  startTime |-> ToMinutes(startTime), endTime |-> ToMinutes(endTime),
                  slotDuration |-> slotDuration, price |-> 0, shift |-> 0,
                  current |-> ToMinutes(startTime), end |-> ToMinutes(endTime),
                  slots |-> <<>>]
  /\ UNCHANGED <<bookings, venueWorkingHours, operatingHours, timeSlots, courtTimeSlots,
                 bookingTimeSlots, billing, tz, now, response, reqs>>

\* generateTimeSlotsForVenue calls generateDailyTimeSlots(startTime, endTime,
\* pricePerHour, slotDuration)
StartGenerateDailyTimeSlots(startTime, endTime, pricePerHour, slotDuration, shift) ==
  /\ slotLoop.pc = "idle"
  /\ slotLoop' = [pc |-> "test", fn |-> "generateDailyTimeSlots",
                  startTime |-> ToMinutes(startTime), endTime |-> ToMinutes(endTime),
                  slotDuration |-> slotDuration, price |-> pricePerHour, shift |-> shift,
                  current |-> LocalToInstant(ToMinutes(startTime), shift),
                  end |-> LocalToInstant(ToMinutes(endTime), shift),
                  slots |-> <<>>]
  /\ UNCHANGED <<bookings, venueWorkingHours, operatingHours, timeSlots, courtTimeSlots,
                 bookingTimeSlots, billing, tz, now, response, reqs>>

\* while (currentTime < endDateTime), while (current < end)
LoopTest ==
  /\ slotLoop.pc = "test"
  /\ slotLoop' = [slotLoop EXCEPT
                    !.pc = IF slotLoop.current < slotLoop.end THEN "body" ELSE "done"]
  /\ UNCHANGED <<bookings, venueWorkingHours, operatingHours, timeSlots, courtTimeSlots,
                 bookingTimeSlots, billing, tz, now, response, reqs>>

\* the body of generateDailySlots: a TimeSlot row is created when the slot
\* ends by endDateTime and no such row exists; then currentTime advances
DailySlotsBody ==
  LET slotEndTime == slotLoop.current + slotLoop.slotDuration
      row == TimeSlot(LoopDayOfWeek, slotLoop.current, slotEndTime, TRUE)
      existingSlot == \E ts \in timeSlots :
                        /\ ts.dayOfWeek = row.dayOfWeek
                        /\ ts.startTime = row.startTime
                        /\ ts.endTime = row.endTime
      creates == slotEndTime <= slotLoop.end /\ ~existingSlot
  IN /\ slotLoop.pc = "body"
     /\ slotLoop.fn = "generateDailySlots"
     /\ timeSlots' = IF creates THEN timeSlots \cup {row} ELSE timeSlots
     /\ slotLoop' = [slotLoop EXCEPT
                       !.pc = "test",
                       !.slots = IF creates THEN Append(@, row) ELSE @,
                       !.current = @ + slotLoop.slotDuration]
     /\ UNCHANGED <<bookings, venueWorkingHours, operatingHours, courtTimeSlots,
                    bookingTimeSlots, billing, tz, now, response, reqs>>

\* the body of generateDailyTimeSlots: a slot is pushed when it ends by end;
\* then current = slotEnd
DailyTimeSlotsBody ==
  LET slotEnd == slotLoop.current + slotLoop.slotDuration
      slot == [startTime |-> ToTimeString(slotLoop.current, slotLoop.shift),
               endTime |-> ToTimeString(slotEnd, slotLoop.shift),
               price |-> slotLoop.price]
  IN /\ slotLoop.pc = "body"
     /\ slotLoop.fn = "generateDailyTimeSlots"
     /\ slotLoop' = [slotLoop EXCEPT
                       !.pc = "test",
                       !.slots = IF slotEnd <= slotLoop.end THEN Append(@, slot) ELSE @,
                       !.current = @ + slotLoop.slotDuration]
     /\ UNCHANGED <<bookings, venueWorkingHours, operatingHours, timeSlots, courtTimeSlots,
                    bookingTimeSlots, billing, tz, now, response, reqs>>

InitGenerate == InitBilling

NextGenerate ==
  \/ \E s \in LoopStartTimes, e \in LoopEndTimes, d \in RequestDurations :
       StartGenerateDailySlots(s, e, d)
  \/ \E w \in ServiceWindows, p \in Prices, d \in ServiceDurations, shift \in DayShifts :
       StartGenerateDailyTimeSlots(w[1], w[2], p, d, shift)
  \/ LoopTest
  \/ DailySlotsBody
  \/ DailyTimeSlotsBody

\* the event loop resumes the function after each await, and the
\* synchronous loop runs on: a loop step that can be taken is taken
SpecGenerate == InitGenerate /\ [][NextGenerate]_vars /\ WF_vars(NextGenerate)

\* C29: every slot-generation loop that was started reaches its return.
C29_GenerationTerminates ==
  (slotLoop.pc \in {"test", "body"}) ~> (slotLoop.pc = "done")

\* C30: generateDailyTimeSlots(start, end, price, d) with d > 0 and
\* start <= end returns floor((end - start) / d) slots, the first starting
\* at start, each lasting d minutes and starting where the previous one
\* ends, none ending after end, each priced at price.
C30_DailyTimeSlots ==
  (/\ slotLoop.pc = "done"
   /\ slotLoop.fn = "generateDailyTimeSlots"
   /\ slotLoop.slotDuration > 0
   /\ slotLoop.startTime <= slotLoop.endTime)
  => LET slots == slotLoop.slots
         n == Len(slots)
     IN /\ n = (slotLoop.endTime - slotLoop.startTime) \div slotLoop.slotDuration
        /\ n > 0 => slots[1].startTime = slotLoop.startTime
        /\ \A i \in 1..n :
             /\ slots[i].endTime - slots[i].startTime = slotLoop.slotDuration
             /\ slots[i].endTime <= slotLoop.endTime
             /\ slots[i].price = slotLoop.price
        /\ \A i \in 1..(n - 1) : slots[i + 1].startTime = slots[i].endTime

====
